---- MODULE Spec2Model ----
(***************************************************************************)
(* Model of trevor-leach/multisearch: the Aho-Corasick SearchTrie          *)
(* (api/ahocorasick) with batch construction (New), incremental insertion  *)
(* (AddSearchTerm) and the streaming Search goroutine feeding a buffered   *)
(* channel.                                                                *)
(*                                                                         *)
(* Strings are sequences of bytes (0..255).  Runes are code points.  The   *)
(* trie is keyed by runes (Go's "range str" and ReadRune decode UTF-8);    *)
(* output sets hold the term strings (bytes); len(t) is a byte length.     *)
(***************************************************************************)
EXTENDS Integers, Sequences, FiniteSets, TLC

VARIABLES
    phase,      \* "start" before New, "built" after, "search" once Search runs
    trie,       \* the SearchTrie
    batch,      \* the searchStrings given to New
    added,      \* the terms given to AddSearchTerm so far, in order
    stream,     \* the bytes behind the RuneReader r
    pos,        \* bytes of stream consumed by ReadRune
    readFailed, \* ReadRune returned an error before the end of input
    cursor,     \* n of the Search goroutine
    index,      \* index of the Search goroutine
    pending,    \* terms of n.ot the range loop has still to send
    pc,         \* Search goroutine: "read", "send", "done" (or "hang")
    ch,         \* contents of the buffered channel
    closed,     \* close(ch) was executed
    sent,       \* every Match sent so far, in order
    received,   \* every Match the caller received, in order
    consumer,   \* the caller: "recv", "stopped" (abandoned), "end" (saw close)
    other,      \* a second Search call running over the same trie
    cli,        \* the command: main, its search goroutines, outCh and errCh
    newCall     \* a call of New in progress: its position in the two passes

vars == <<phase, trie, batch, added, stream, pos, readFailed, cursor, index,
          pending, pc, ch, closed, sent, received, consumer, other, cli, newCall>>

auxVars == <<other, cli, newCall>>

buildVars == <<trie, batch, added>>
searchVars == <<stream, pos, readFailed, cursor, index, pending, pc, ch,
                closed, sent, received, consumer>>

----------------------------------------------------------------------------
(* Generic helpers.                                                        *)

Range(f) == {f[x] : x \in DOMAIN f}

SeqsUpTo(S, n) == UNION {[1..k -> S] : k \in 0..n}

IsSuffix(t, s) ==
    /\ Len(t) <= Len(s)
    /\ \A i \in 1..Len(t) : t[i] = s[Len(s) - Len(t) + i]

Min(S) == CHOOSE x \in S : \A y \in S : x <= y

----------------------------------------------------------------------------
(* Bounds of the model.                                                    *)

MaxBatch == 2
MaxAdds == 3
MaxTextLen == 3
MaxStreamBatch == 2
MaxStreamAdds == 1
MaxStreamLen == 3

\* Terms and texts of the construction scenarios: "", a, n, an, na, aan, can
\* and every text over a, c, n.
BuildTerms == { <<>>, <<97>>, <<110>>, <<97, 110>>, <<110, 97>>,
                <<97, 97, 110>>, <<99, 97, 110>> }
BuildTexts == SeqsUpTo({97, 99, 110}, MaxTextLen)

\* Terms and stream bytes of the search scenarios: a, aa and U+FFFD, whose
\* encoding is EF BF BD; a lone EF, BF or BD is not well-formed UTF-8.
StreamTerms == { <<97>>, <<97, 97>>, <<239, 191, 189>> }
StreamTexts == SeqsUpTo({97, 239, 191, 189}, MaxStreamLen)

----------------------------------------------------------------------------
(* UTF-8 decoding, as done by "for _, char := range str" on a term and by  *)
(* ReadRune on the text: a well-formed sequence gives its code point and   *)
(* its width; any other byte gives RuneError (U+FFFD) with width 1.        *)

RuneError == 65533

IsCont(b) == b >= 128 /\ b <= 191

\* Size of the sequence a first byte announces (0: not a valid first byte).
FirstSize(b0) ==
    IF b0 < 128 THEN 1
    ELSE IF b0 >= 194 /\ b0 <= 223 THEN 2
    ELSE IF b0 >= 224 /\ b0 <= 239 THEN 3
    ELSE IF b0 >= 240 /\ b0 <= 244 THEN 4
    ELSE 0

\* Accepted range of the second byte, by first byte.
AcceptLo(b0) == IF b0 = 224 THEN 160 ELSE IF b0 = 240 THEN 144 ELSE 128
AcceptHi(b0) == IF b0 = 237 THEN 159 ELSE IF b0 = 244 THEN 143 ELSE 191

\* Decode the rune starting at byte i of s (1 <= i <= Len(s)).
DecodeRune(s, i) ==
    LET b0 == s[i]
        n  == Len(s) - i + 1
        sz == FirstSize(b0)
        bad == [r |-> RuneError, w |-> 1]
    IN  IF sz = 1 THEN [r |-> b0, w |-> 1]
        ELSE IF sz = 0 \/ n < sz THEN bad
        ELSE IF s[i+1] < AcceptLo(b0) \/ s[i+1] > AcceptHi(b0) THEN bad
        ELSE IF sz = 2
             THEN [r |-> (b0 % 32) * 64 + (s[i+1] % 64), w |-> 2]
        ELSE IF ~IsCont(s[i+2]) THEN bad
        ELSE IF sz = 3
             THEN [r |-> (b0 % 16) * 4096 + (s[i+1] % 64) * 64 + (s[i+2] % 64),
                   w |-> 3]
        ELSE IF ~IsCont(s[i+3]) THEN bad
        ELSE [r |-> (b0 % 8) * 262144 + (s[i+1] % 64) * 4096
                    + (s[i+2] % 64) * 64 + (s[i+3] % 64),
              w |-> 4]

\* The runes of a string with their widths, in order.
RECURSIVE DecodeFrom(_, _)
DecodeFrom(s, i) ==
    IF i > Len(s) THEN <<>>
    ELSE LET d == DecodeRune(s, i) IN <<d>> \o DecodeFrom(s, i + d.w)

Decode(s) == DecodeFrom(s, 1)

Runes(s) == [i \in 1..Len(Decode(s)) |-> Decode(s)[i].r]

----------------------------------------------------------------------------
(* The SearchTrie.  Nodes are numbered in creation order, the root is 0.   *)
(* A trie value is a record of the per-node fields:                        *)
(*   char, isWord, children (rune -> node), lps (node or NIL),             *)
(*   ilps (set of nodes), ot (set of terms),                               *)
(* plus status: "ok", or how the running call died ("overflow": unbounded  *)
(* recursion, a fatal stack overflow; "hang": a loop that never exits).    *)

Root == 0
NIL == -1
\* AddSearchTerm and Search have value receivers: they run on a copy of
\* the root struct.  The copy shares the root's maps (children, ilps, ot),
\* has its own isWord and lps, and is a different address than s.root.
COPY == -2
HANG == -3

Nodes(t) == DOMAIN t.lps

\* The node whose maps a receiver uses.
Sh(s) == IF s = COPY THEN Root ELSE s

\* A new root that already holds the empty term as an output.
EmptyTrie_RootOutput ==
    [char     |-> [n \in {Root} |-> 0],
     isWord   |-> [n \in {Root} |-> TRUE],
     children |-> [n \in {Root} |-> <<>>],
     lps      |-> [n \in {Root} |-> NIL],
     ilps     |-> [n \in {Root} |-> {}],
     ot       |-> [n \in {Root} |-> {<<>>}],
     status   |-> "ok"]

EmptyTrie ==
    [char     |-> [n \in {Root} |-> 0],
     isWord   |-> [n \in {Root} |-> FALSE],
     children |-> [n \in {Root} |-> <<>>],
     lps      |-> [n \in {Root} |-> NIL],
     ilps     |-> [n \in {Root} |-> {}],
     ot       |-> [n \in {Root} |-> {}],
     status   |-> "ok"]

isRoot(s) == s = Root

failureFn(t, s) ==
    IF s = COPY THEN Root
    ELSE IF t.lps[s] = NIL THEN Root ELSE t.lps[s]

hasChild(t, s, c) == c \in DOMAIN t.children[Sh(s)]

getChild(t, s, c) ==
    IF hasChild(t, s, c) THEN t.children[Sh(s)][c] ELSE Root

----------------------------------------------------------------------------
(* enterOutput: add str to s.ot and, recursively, to every node of s.ilps. *)
(* The recursion does not change ilps, so re-entering a node that is       *)
(* already on the call stack repeats forever: the goroutine stack          *)
(* overflows and the process dies.                                         *)

RECURSIVE enterOutput(_, _, _, _), enterOutputAll(_, _, _, _)

enterOutput(t, s, str, stack) ==
    IF t.status # "ok" THEN t
    ELSE IF s \in stack THEN [t EXCEPT !.status = "overflow"]
    ELSE LET t1 == [t EXCEPT !.ot[Sh(s)] = @ \cup {str}]
         IN  enterOutputAll(t1, t1.ilps[Sh(s)], str, stack \cup {s})

\* The loop "for _, x := range s.ilps" of enterOutput over the entries xs.
enterOutputAll(t, xs, str, stack) ==
    IF xs = {} \/ t.status # "ok" THEN t
    ELSE LET x == Min(xs)
         IN  enterOutputAll(enterOutput(t, x, str, stack), xs \ {x}, str, stack)

----------------------------------------------------------------------------
(* completeFailureFn: the failure link and inherited outputs of s's child  *)
(* for c.  failLoop is its "for" loop; it returns mp, or HANG when the     *)
(* loop comes back to a node it already left (nothing changes in the loop, *)
(* so it never exits).                                                     *)

RECURSIVE failLoop(_, _, _, _)
failLoop(t, m, c, seen) ==
    LET m1 == failureFn(t, m)
        mp == getChild(t, m1, c)
    IN  IF isRoot(m1) \/ ~isRoot(mp) THEN mp
        ELSE IF m1 \in seen THEN HANG
        ELSE failLoop(t, m1, c, seen \cup {m1})

\* completeFailureFn assigning the target's outputs instead of merging them.
completeFailureFn_AssignOt(t, s, c) ==
    IF t.status # "ok" \/ isRoot(s) THEN t
    ELSE LET np == getChild(t, s, c)
             mp == failLoop(t, s, c, {})
         IN  IF mp = HANG THEN [t EXCEPT !.status = "hang"]
             ELSE [t EXCEPT !.lps[np] = mp,
                            !.ot[np] = t.ot[mp]]

completeFailureFn(t, s, c) ==
    IF t.status # "ok" \/ isRoot(s) THEN t
    ELSE LET np == getChild(t, s, c)
             mp == failLoop(t, s, c, {})
         IN  IF mp = HANG THEN [t EXCEPT !.status = "hang"]
             ELSE [t EXCEPT !.lps[np] = mp,
                            !.ot[np] = @ \cup t.ot[mp]]

----------------------------------------------------------------------------
(* completeInverseFn: re-point to np the c-children of the nodes whose     *)
(* failure chain reaches s.  It ranges over the map y.ilps while entries   *)
(* of ilps maps are deleted and inserted; Go leaves the order unspecified, *)
(* never produces an entry deleted before it is reached, and may or may    *)
(* not produce an entry inserted during the loop.  The operators return    *)
(* the set of tries the call can leave behind.                             *)

\* Body of the loop for an x that has a c-child xp.
redirect(t, x, np, c) ==
    LET xp  == t.children[x][c]
        old == failureFn(t, xp)
        t1  == [t EXCEPT !.ilps[old] = @ \ {xp}]
        t2  == [t1 EXCEPT !.lps[xp] = np]
    IN  [t2 EXCEPT !.ilps[np] = @ \cup {xp}]

RECURSIVE completeInverseFn(_, _, _, _), rangeIlps(_, _, _, _, _, _)

completeInverseFn(t, s, np, c) ==
    rangeIlps(t, s, np, c, t.ilps[Sh(s)], {})

\* The loop "for _, x := range y.ilps": must = entries present since the
\* loop began, done = entries already produced.
rangeIlps(t, y, np, c, must, done) ==
    LET avail == t.ilps[Sh(y)] \ done
    IN  (IF avail \cap must = {} THEN {t} ELSE {})
        \cup
        UNION { LET after == IF c \in DOMAIN t.children[x]
                             THEN {redirect(t, x, np, c)}
                             ELSE completeInverseFn(t, x, np, c)
                IN  UNION { rangeIlps(t2, y, np, c,
                                      must \cap t2.ilps[Sh(y)], done \cup {x})
                            : t2 \in after }
              : x \in avail }

----------------------------------------------------------------------------
(* enterChild: create the child of s for c and complete its links.         *)
(* Returns the possible tries; the child is the node with the largest id.  *)

NewNode(t) == Cardinality(Nodes(t))

Grow(f, k, v) == [n \in DOMAIN f \cup {k} |-> IF n = k THEN v ELSE f[n]]

enterChild(t, s, c) ==
    LET child == NewNode(t)
        t0 == [char     |-> Grow(t.char, child, c),
               isWord   |-> Grow(t.isWord, child, FALSE),
               children |-> Grow(t.children, child, <<>>),
               lps      |-> Grow(t.lps, child, NIL),
               ilps     |-> Grow(t.ilps, child, {}),
               ot       |-> Grow(t.ot, child, {}),
               status   |-> t.status]
        t1 == [t0 EXCEPT !.children[Sh(s)] = (c :> child) @@ @]
        t2 == completeFailureFn(t1, s, c)
        t3 == IF t2.lps[child] # NIL
              THEN [t2 EXCEPT !.ilps[t2.lps[child]] = @ \cup {child}]
              ELSE t2
    IN  IF t2.status # "ok" THEN {t2}
        ELSE completeInverseFn(t3, s, child, c)

----------------------------------------------------------------------------
(* enterInTrie: walk/extend the path of str from s, mark the last node as  *)
(* a word and enter str in the output sets.                                *)

\* "current.isWord = true": on the copy of the root the write is to the
\* copy's own field and is lost with it.
markWord(t, cur) ==
    IF cur = COPY THEN t ELSE [t EXCEPT !.isWord[cur] = TRUE]

RECURSIVE enterWalk(_, _, _, _, _)
enterWalk(t, cur, rs, i, str) ==
    IF t.status # "ok" THEN {t}
    ELSE IF i > Len(rs)
    THEN {enterOutput(markWord(t, cur), cur, str, {})}
    ELSE LET next == getChild(t, cur, rs[i])
         IN  IF isRoot(next)
             THEN UNION { enterWalk(t2, NewNode(t), rs, i + 1, str)
                          : t2 \in enterChild(t, cur, rs[i]) }
             ELSE enterWalk(t, next, rs, i + 1, str)

enterInTrie(t, s, str) == enterWalk(t, s, Runes(str), 1, str)

RECURSIVE buildTrie(_, _, _)
buildTrie(t, searchStrings, i) ==
    IF i > Len(searchStrings) THEN {t}
    ELSE UNION { buildTrie(t2, searchStrings, i + 1)
                 : t2 \in enterInTrie(t, Root, searchStrings[i]) }

----------------------------------------------------------------------------
(* buildFailureFn: breadth-first pass that recomputes lps and merges the   *)
(* target's outputs into ot.  It does not touch ilps.  Both loops range    *)
(* over a children map, which Go visits in an unspecified order: the       *)
(* operators return the set of tries the pass can leave behind.            *)

\* The orders in which a range over a map with the keys cs can visit them.
RECURSIVE childList(_)
childList(cs) ==
    IF cs = {} THEN {<<>>}
    ELSE UNION { { <<c>> \o rest : rest \in childList(cs \ {c}) } : c \in cs }

RECURSIVE completeAll(_, _, _, _)
completeAll(t, node, cs, i) ==
    IF i > Len(cs) THEN t
    ELSE completeAll(completeFailureFn(t, node, cs[i]), node, cs, i + 1)

RECURSIVE bfs(_, _, _)
bfs(t, nodes, i) ==
    IF i > Len(nodes) \/ t.status # "ok" THEN {t}
    ELSE LET node == nodes[i]
         IN  UNION { bfs(completeAll(t, node, cs, 1),
                         nodes \o [j \in 1..Len(cs) |-> t.children[node][cs[j]]],
                         i + 1)
                     : cs \in childList(DOMAIN t.children[node]) }

buildFailureFn(t) ==
    UNION { bfs(t, [j \in 1..Len(cs) |-> t.children[Root][cs[j]]], 1)
            : cs \in childList(DOMAIN t.children[Root]) }

\* New(searchStrings): the tries construction can return.
New(searchStrings) ==
    UNION { buildFailureFn(t) : t \in buildTrie(EmptyTrie, searchStrings, 1) }

\* AddSearchTerm(searchTerm) on the trie t, through the value receiver.
AddSearchTerm(t, searchTerm) == enterInTrie(t, COPY, searchTerm)

----------------------------------------------------------------------------
(* Search, as a function of the trie and the text.                         *)

\* The loop "for !n.isRoot() && n.children[char] == nil": the node it
\* stops at, or HANG.
RECURSIVE failWalk(_, _, _, _)
failWalk(t, n, c, seen) ==
    IF ~isRoot(n) /\ ~hasChild(t, n, c)
    THEN IF n \in seen THEN HANG
         ELSE failWalk(t, failureFn(t, n), c, seen \cup {n})
    ELSE n

\* The cursor after consuming c at n.
step(t, n, c) ==
    LET m == failWalk(t, n, c, {})
    IN  IF m = HANG THEN HANG ELSE getChild(t, m, c)

\* Match taking index as the start of the term instead of its end.
Match_FromIndex(term, index0) ==
    [Term |-> term, Location |-> <<index0, index0 + Len(term)>>]

Match(term, index0) ==
    [Term |-> term, Location |-> <<index0 - Len(term), index0>>]

\* The matches sent for the node n reached with offset index0.
outputsAt(t, n, index0) == { Match(term, index0) : term \in t.ot[Sh(n)] }

\* Cursor and offset after each of the first k runes of the decoded text;
\* entry k is [n, index], n = HANG once the search loops forever.
RECURSIVE run(_, _, _)
run(t, dec, k) ==
    IF k = 0 THEN [n |-> COPY, index |-> 0]
    ELSE LET prev == run(t, dec, k - 1)
         IN  IF prev.n = HANG THEN prev
             ELSE [n |-> step(t, prev.n, dec[k].r),
                   index |-> prev.index + dec[k].w]

\* Matches emitted right after the k-th rune of text.
emittedAt(t, text, k) ==
    LET r == run(t, Decode(text), k)
    IN  IF r.n = HANG THEN {} ELSE outputsAt(t, r.n, r.index)

\* All matches of a search over the whole text.
searchAll(t, text) ==
    UNION { emittedAt(t, text, k) : k \in 1..Len(Decode(text)) }

----------------------------------------------------------------------------
(* Construction and incremental insertion as a state machine.              *)

ChanCap == 2

Idle ==
    /\ stream = <<>> /\ pos = 0 /\ readFailed = FALSE
    /\ cursor = COPY /\ index = 0 /\ pending = {} /\ pc = "idle"
    /\ ch = <<>> /\ closed = FALSE /\ sent = <<>> /\ received = <<>>
    /\ consumer = "idle"

\* No second Search call, no command running.
NoOther == [pc |-> "idle"]
NoCli == [main |-> "idle"]
NoNew == [pc |-> "idle"]

BuildInit ==
    /\ phase = "start"
    /\ trie = EmptyTrie
    /\ batch = <<>>
    /\ added = <<>>
    /\ Idle
    /\ other = NoOther
    /\ cli = NoCli
    /\ newCall = NoNew

\* s := New(searchStrings)
CallNew ==
    /\ phase = "start"
    /\ \E b \in SeqsUpTo(BuildTerms, MaxBatch) :
         \E t \in New(b) :
            /\ trie' = t
            /\ batch' = b
    /\ phase' = "built"
    /\ UNCHANGED <<added, searchVars, auxVars>>

\* s.AddSearchTerm(searchTerm); a call that died leaves no process behind.
CallAddSearchTerm ==
    /\ phase = "built"
    /\ trie.status = "ok"
    /\ Len(added) < MaxAdds
    /\ \E term \in BuildTerms :
         \E t \in AddSearchTerm(trie, term) :
            /\ trie' = t
            /\ added' = Append(added, term)
    /\ UNCHANGED <<phase, batch, searchVars, auxVars>>

BuildNext == CallNew \/ CallAddSearchTerm

Spec == BuildInit /\ [][BuildNext]_vars

----------------------------------------------------------------------------
(* One Search over a built trie: the producing goroutine, the channel and  *)
(* the caller that receives from it.                                       *)

\* The tries the search scenarios run on: New, then AddSearchTerm calls
\* that returned.
RECURSIVE addAll(_, _, _)
addAll(ts, terms, i) ==
    IF i > Len(terms) THEN ts
    ELSE addAll(UNION { AddSearchTerm(t, terms[i]) : t \in {u \in ts : u.status = "ok"} },
                terms, i + 1)

\* State right after "ch := make(chan api.Match, 2); go func() {...}()".
SearchInit ==
    /\ phase = "search"
    /\ \E b \in SeqsUpTo(StreamTerms, MaxStreamBatch) :
         \E a \in SeqsUpTo(StreamTerms, MaxStreamAdds) :
            \E t \in addAll(New(b), a, 1) :
               /\ t.status = "ok"
               /\ trie = t
               /\ batch = b
               /\ added = a
    /\ stream \in StreamTexts
    /\ pos = 0
    /\ readFailed = FALSE
    /\ cursor = COPY
    /\ index = 0
    /\ pending = {}
    /\ pc = "read"
    /\ ch = <<>>
    /\ closed = FALSE
    /\ sent = <<>>
    /\ received = <<>>
    /\ consumer = "recv"
    /\ other = NoOther
    /\ cli = NoCli
    /\ newCall = NoNew

\* ReadRune returns a rune: advance index and the cursor, then start the
\* range over n.ot.
ReadRune ==
    /\ pc = "read"
    /\ pos < Len(stream)
    /\ LET d == DecodeRune(stream, pos + 1)
           n == step(trie, cursor, d.r)
       IN  /\ pos' = pos + d.w
           /\ index' = index + d.w
           /\ IF n = HANG
              THEN /\ pc' = "hang"
                   /\ UNCHANGED <<cursor, pending>>
              ELSE /\ cursor' = n
                   /\ pending' = trie.ot[Sh(n)]
                   /\ pc' = IF trie.ot[Sh(n)] = {} THEN "read" ELSE "send"
    /\ UNCHANGED <<auxVars, phase, buildVars, stream, readFailed, ch, closed, sent,
                   received, consumer>>

\* ReadRune returns io.EOF at the end of the input: break, close(ch).
ReadEOF ==
    /\ pc = "read"
    /\ pos = Len(stream)
    /\ closed' = TRUE
    /\ pc' = "done"
    /\ UNCHANGED <<auxVars, phase, buildVars, stream, pos, readFailed, cursor, index,
                   pending, ch, sent, received, consumer>>

\* ReadFailure leaving the goroutine without closing the channel.
ReadFailure_NoClose ==
    /\ pc = "read"
    /\ pos < Len(stream)
    /\ readFailed' = TRUE
    /\ pc' = "done"
    /\ UNCHANGED <<auxVars, phase, buildVars, stream, pos, cursor, index, pending, ch,
                   closed, sent, received, consumer>>

\* ReadRune returns another error with input left: break, close(ch).
ReadFailure ==
    /\ pc = "read"
    /\ pos < Len(stream)
    /\ readFailed' = TRUE
    /\ closed' = TRUE
    /\ pc' = "done"
    /\ UNCHANGED <<auxVars, phase, buildVars, stream, pos, cursor, index, pending, ch,
                   sent, received, consumer>>

\* Send into a buffer one slot larger than the channel's.
Send_OneMore ==
    /\ pc = "send"
    /\ Len(ch) <= ChanCap
    /\ \E term \in pending :
         LET m == Match(term, index)
         IN  /\ ch' = Append(ch, m)
             /\ sent' = Append(sent, m)
             /\ pending' = pending \ {term}
             /\ pc' = IF pending = {term} THEN "read" ELSE "send"
    /\ UNCHANGED <<auxVars, phase, buildVars, stream, pos, readFailed, cursor, index,
                   closed, received, consumer>>

\* ch <- api.Match{...} for the next term of the range over n.ot (in any
\* order); blocks while the buffer is full.
Send ==
    /\ pc = "send"
    /\ Len(ch) < ChanCap
    /\ \E term \in pending :
         LET m == Match(term, index)
         IN  /\ ch' = Append(ch, m)
             /\ sent' = Append(sent, m)
             /\ pending' = pending \ {term}
             /\ pc' = IF pending = {term} THEN "read" ELSE "send"
    /\ UNCHANGED <<auxVars, phase, buildVars, stream, pos, readFailed, cursor, index,
                   closed, received, consumer>>

\* The caller receives the next Match.
Receive ==
    /\ consumer = "recv"
    /\ ch # <<>>
    /\ received' = Append(received, Head(ch))
    /\ ch' = Tail(ch)
    /\ UNCHANGED <<auxVars, phase, buildVars, stream, pos, readFailed, cursor, index,
                   pending, pc, closed, sent, consumer>>

\* The caller's receive finds the channel closed and drained.
ReceiveClosed ==
    /\ consumer = "recv"
    /\ ch = <<>>
    /\ closed
    /\ consumer' = "end"
    /\ UNCHANGED <<auxVars, phase, buildVars, stream, pos, readFailed, cursor, index,
                   pending, pc, ch, closed, sent, received>>

\* The caller stops receiving and drops the channel.
Abandon ==
    /\ consumer = "recv"
    /\ consumer' = "stopped"
    /\ UNCHANGED <<auxVars, phase, buildVars, stream, pos, readFailed, cursor, index,
                   pending, pc, ch, closed, sent, received>>

Producer == ReadRune \/ ReadEOF \/ ReadFailure \/ Send

SearchNext ==
    \/ ReadRune
    \/ ReadEOF
    \/ ReadFailure
    \/ Send
    \/ Receive
    \/ ReceiveClosed
    \/ Abandon

SearchSpec == SearchInit /\ [][SearchNext]_vars

\* The goroutine is scheduled whenever it can run, and a caller that has
\* not abandoned the channel keeps receiving.  A read failure is an event
\* of the environment: it may happen, nothing makes it happen.
SearchFairSpec ==
    /\ SearchInit
    /\ [][SearchNext]_vars
    /\ WF_vars(ReadRune \/ ReadEOF \/ Send)
    /\ WF_vars(Receive \/ ReceiveClosed)

----------------------------------------------------------------------------
(* Two Search calls over the same trie, with no insertion in progress.     *)
(* The first call uses the search variables above; the second call's       *)
(* goroutine, channel and caller are the fields of other.                  *)

MaxConcLen == 2

ConcTexts == SeqsUpTo({97, 191}, MaxConcLen)

\* The locals of a Search call right after "go func() {...}()": n starts at
\* the receiver's copy of the root, index at 0, the channel is empty.
StartSearch(text) ==
    [stream |-> text, pos |-> 0, cursor |-> COPY, index |-> 0, pending |-> {},
     pc |-> "read", ch |-> <<>>, closed |-> FALSE, sent |-> <<>>,
     received |-> <<>>]

ConcInit ==
    /\ phase = "search"
    /\ \E b \in SeqsUpTo(StreamTerms, MaxStreamBatch) :
         \E a \in SeqsUpTo(StreamTerms, MaxStreamAdds) :
            \E t \in addAll(New(b), a, 1) :
               /\ t.status = "ok"
               /\ trie = t
               /\ batch = b
               /\ added = a
    /\ stream \in ConcTexts
    /\ pos = 0
    /\ readFailed = FALSE
    /\ cursor = COPY
    /\ index = 0
    /\ pending = {}
    /\ pc = "read"
    /\ ch = <<>>
    /\ closed = FALSE
    /\ sent = <<>>
    /\ received = <<>>
    /\ consumer = "recv"
    /\ \E text \in ConcTexts : other = StartSearch(text)
    /\ cli = NoCli
    /\ newCall = NoNew

\* The second call's ReadRune stepping from the first call's cursor.
OtherReadRune_SharedCursor ==
    /\ other.pc = "read"
    /\ other.pos < Len(other.stream)
    /\ LET d == DecodeRune(other.stream, other.pos + 1)
           n == step(trie, cursor, d.r)
       IN  other' = IF n = HANG
                    THEN [other EXCEPT !.pos = @ + d.w, !.index = @ + d.w,
                                       !.pc = "hang"]
                    ELSE [other EXCEPT !.pos = @ + d.w, !.index = @ + d.w,
                                       !.cursor = n,
                                       !.pending = trie.ot[Sh(n)],
                                       !.pc = IF trie.ot[Sh(n)] = {}
                                              THEN "read" ELSE "send"]
    /\ UNCHANGED <<cli, newCall, phase, buildVars, searchVars>>

\* The second call's goroutine reads a rune: it advances its own index and
\* its own n.
OtherReadRune ==
    /\ other.pc = "read"
    /\ other.pos < Len(other.stream)
    /\ LET d == DecodeRune(other.stream, other.pos + 1)
           n == step(trie, other.cursor, d.r)
       IN  other' = IF n = HANG
                    THEN [other EXCEPT !.pos = @ + d.w, !.index = @ + d.w,
                                       !.pc = "hang"]
                    ELSE [other EXCEPT !.pos = @ + d.w, !.index = @ + d.w,
                                       !.cursor = n,
                                       !.pending = trie.ot[Sh(n)],
                                       !.pc = IF trie.ot[Sh(n)] = {}
                                              THEN "read" ELSE "send"]
    /\ UNCHANGED <<cli, newCall, phase, buildVars, searchVars>>

\* The second call's ReadRune returns io.EOF: break, close(ch).
OtherReadEOF ==
    /\ other.pc = "read"
    /\ other.pos = Len(other.stream)
    /\ other' = [other EXCEPT !.closed = TRUE, !.pc = "done"]
    /\ UNCHANGED <<cli, newCall, phase, buildVars, searchVars>>

\* The second call's goroutine sends the next match of its range over n.ot.
OtherSend ==
    /\ other.pc = "send"
    /\ Len(other.ch) < ChanCap
    /\ \E term \in other.pending :
         LET m == Match(term, other.index)
         IN  other' = [other EXCEPT !.ch = Append(@, m),
                                    !.sent = Append(@, m),
                                    !.pending = @ \ {term},
                                    !.pc = IF other.pending = {term}
                                           THEN "read" ELSE "send"]
    /\ UNCHANGED <<cli, newCall, phase, buildVars, searchVars>>

\* The second call's caller receives the next Match.
OtherReceive ==
    /\ other.pc \in {"read", "send", "hang", "done"}
    /\ other.ch # <<>>
    /\ other' = [other EXCEPT !.received = Append(@, Head(other.ch)),
                              !.ch = Tail(@)]
    /\ UNCHANGED <<cli, newCall, phase, buildVars, searchVars>>

ConcNext ==
    \/ ReadRune
    \/ ReadEOF
    \/ Send
    \/ Receive
    \/ ReceiveClosed
    \/ OtherReadRune
    \/ OtherReadEOF
    \/ OtherSend
    \/ OtherReceive

ConcSpec == ConcInit /\ [][ConcNext]_vars

----------------------------------------------------------------------------
(* The command: main fans searches out to goroutines that send their lines *)
(* to outCh and their errors to errCh; two goroutines started by main      *)
(* after the fan-out write the lines.                                      *)

MaxWalkErrors == 17
MaxFiles == 2
MaxFileLines == 1
MaxLines == 16

\* make(chan string, 16), twice.
OutCap == 16
ErrCap == 16

Modes == {"stdin", "file", "dir"}

\* The lines of all search goroutines waiting in outCh.
RECURSIVE outLen(_, _)
outLen(ws, i) == IF i = 0 THEN 0 ELSE outLen(ws, i - 1) + ws[i].queued

\* A goroutine running doSearch: the header line, then one line per match.
DoSearch(matches) ==
    [kind |-> "doSearch", pc |-> "lines", left |-> 1 + matches, sent |-> 0,
     queued |-> 0, written |-> 0]

\* A goroutine running doFileSearch: os.Open first, then one line per match.
DoFileSearch(matches) ==
    [kind |-> "doFileSearch", pc |-> "open", left |-> matches, sent |-> 0,
     queued |-> 0, written |-> 0]

\* main after "var wg, wg2 sync.WaitGroup", for each kind of search path.
CliInit ==
    /\ phase = "cli"
    /\ trie = EmptyTrie
    /\ batch = <<>>
    /\ added = <<>>
    /\ Idle
    /\ other = NoOther
    /\ newCall = NoNew
    /\ \E m \in Modes :
         cli = [mode |-> m, main |-> "start", walkErrors |-> 0, wg |-> 0,
                workers |-> <<>>, errQueued |-> 0, errSent |-> 0,
                errWritten |-> 0, outClosed |-> FALSE, errClosed |-> FALSE,
                outWriter |-> "none", errWriter |-> "none", panic |-> FALSE]

CliFrame == UNCHANGED <<phase, buildVars, searchVars, other, newCall>>

\* os.Exit(1) before any goroutine is started: "-r" without "-searchpath"
\* (stdin), os.Stat of the search path fails (a file or a directory), or
\* os.Open of the single search file fails.  The process ends with wg = 0
\* and nothing sent.
MainExits ==
    /\ cli.main = "start"
    /\ cli' = [cli EXCEPT !.main = "osExit"]
    /\ CliFrame

\* stdin or a single file that opens: wg.Add(1); go doSearch(...).
MainStartDoSearch ==
    /\ cli.main = "start"
    /\ cli.mode \in {"stdin", "file"}
    /\ \E k \in {0, 1, MaxLines} :
         cli' = [cli EXCEPT !.wg = @ + 1,
                            !.workers = Append(@, DoSearch(k)),
                            !.main = "spawn"]
    /\ CliFrame

\* A directory: main calls filepath.Walk.
MainStartWalk ==
    /\ cli.main = "start"
    /\ cli.mode = "dir"
    /\ cli' = [cli EXCEPT !.main = "walk"]
    /\ CliFrame

\* Walk calls the function with an error: main is about to send on errCh.
WalkError ==
    /\ cli.main = "walk"
    /\ cli.walkErrors < MaxWalkErrors
    /\ cli' = [cli EXCEPT !.walkErrors = @ + 1, !.main = "walkSend"]
    /\ CliFrame

\* errCh <- ... in the walk function, run by main; blocks while errCh is
\* full.
WalkSendError ==
    /\ cli.main = "walkSend"
    /\ cli.errQueued < ErrCap
    /\ cli' = [cli EXCEPT !.errQueued = @ + 1, !.errSent = @ + 1,
                          !.main = "walk"]
    /\ CliFrame

\* Walk calls the function with a file: wg.Add(1); go doFileSearch(...).
WalkFile ==
    /\ cli.main = "walk"
    /\ Len(cli.workers) < MaxFiles
    /\ \E k \in 0..MaxFileLines :
         cli' = [cli EXCEPT !.wg = @ + 1,
                            !.workers = Append(@, DoFileSearch(k))]
    /\ CliFrame

\* Walk returns.
WalkDone ==
    /\ cli.main = "walk"
    /\ cli' = [cli EXCEPT !.main = "spawn"]
    /\ CliFrame

\* wg2.Add(1); go func() {range outCh}; wg2.Add(1); go func() {range errCh}.
MainStartWriters ==
    /\ cli.main = "spawn"
    /\ cli' = [cli EXCEPT !.outWriter = "run", !.errWriter = "run",
                          !.main = "wait"]
    /\ CliFrame

\* wg.Wait() returns; close(outCh); close(errCh).
MainCloseAfterWait ==
    /\ cli.main = "wait"
    /\ cli.wg = 0
    /\ cli' = [cli EXCEPT !.outClosed = TRUE, !.errClosed = TRUE,
                          !.main = "wait2"]
    /\ CliFrame

\* wg2.Wait() returns and main returns.
MainReturn ==
    /\ cli.main = "wait2"
    /\ cli.outWriter = "done"
    /\ cli.errWriter = "done"
    /\ cli' = [cli EXCEPT !.main = "exit"]
    /\ CliFrame

\* os.Open fails in doFileSearch: the goroutine is about to send on errCh.
FileOpenFails(i) ==
    /\ i \in 1..Len(cli.workers)
    /\ cli.workers[i].pc = "open"
    /\ cli' = [cli EXCEPT !.workers[i].pc = "errSend"]
    /\ CliFrame

\* os.Open succeeds in doFileSearch.
FileOpens(i) ==
    /\ i \in 1..Len(cli.workers)
    /\ cli.workers[i].pc = "open"
    /\ cli' = [cli EXCEPT !.workers[i].pc = "lines"]
    /\ CliFrame

\* errCh <- ...; return, with the deferred wg.Done().  A send on a closed
\* channel panics.
FileSendError(i) ==
    /\ i \in 1..Len(cli.workers)
    /\ cli.workers[i].pc = "errSend"
    /\ IF cli.errClosed
       THEN cli' = [cli EXCEPT !.panic = TRUE, !.workers[i].pc = "done"]
       ELSE /\ cli.errQueued < ErrCap
            /\ cli' = [cli EXCEPT !.errQueued = @ + 1, !.errSent = @ + 1,
                                  !.workers[i].pc = "done", !.wg = @ - 1]
    /\ CliFrame

\* out <- line, for the header or the next match; blocks while outCh is
\* full.  A send on a closed channel panics.
SendLine(i) ==
    /\ i \in 1..Len(cli.workers)
    /\ cli.workers[i].pc = "lines"
    /\ cli.workers[i].left > 0
    /\ IF cli.outClosed
       THEN cli' = [cli EXCEPT !.panic = TRUE, !.workers[i].pc = "done"]
       ELSE /\ outLen(cli.workers, Len(cli.workers)) < OutCap
            /\ cli' = [cli EXCEPT !.workers[i].left = @ - 1,
                                  !.workers[i].sent = @ + 1,
                                  !.workers[i].queued = @ + 1]
    /\ CliFrame

\* The range over Search's channel ends: return, with the deferred
\* wg.Done().
SearchReturns(i) ==
    /\ i \in 1..Len(cli.workers)
    /\ cli.workers[i].pc = "lines"
    /\ cli.workers[i].left = 0
    /\ cli' = [cli EXCEPT !.workers[i].pc = "done", !.wg = @ - 1]
    /\ CliFrame

\* The goroutine ranging over outCh writes the next line.
WriteLine ==
    /\ cli.outWriter = "run"
    /\ \E i \in 1..Len(cli.workers) :
         /\ cli.workers[i].queued > 0
         /\ cli' = [cli EXCEPT !.workers[i].queued = @ - 1,
                               !.workers[i].written = @ + 1]
    /\ CliFrame

\* The range over outCh ends: the channel is closed and empty; wg2.Done().
OutWriterReturns ==
    /\ cli.outWriter = "run"
    /\ cli.outClosed
    /\ outLen(cli.workers, Len(cli.workers)) = 0
    /\ cli' = [cli EXCEPT !.outWriter = "done"]
    /\ CliFrame

\* The goroutine ranging over errCh writes the next error.
WriteError ==
    /\ cli.errWriter = "run"
    /\ cli.errQueued > 0
    /\ cli' = [cli EXCEPT !.errQueued = @ - 1, !.errWritten = @ + 1]
    /\ CliFrame

\* The range over errCh ends: the channel is closed and empty; wg2.Done().
ErrWriterReturns ==
    /\ cli.errWriter = "run"
    /\ cli.errClosed
    /\ cli.errQueued = 0
    /\ cli' = [cli EXCEPT !.errWriter = "done"]
    /\ CliFrame

Main ==
    \/ MainExits
    \/ MainStartDoSearch
    \/ MainStartWalk
    \/ WalkError
    \/ WalkSendError
    \/ WalkFile
    \/ WalkDone
    \/ MainStartWriters
    \/ MainCloseAfterWait
    \/ MainReturn

SearchGoroutine(i) ==
    \/ FileOpenFails(i)
    \/ FileOpens(i)
    \/ FileSendError(i)
    \/ SendLine(i)
    \/ SearchReturns(i)

CliNext ==
    \/ Main
    \/ \E i \in 1..MaxFiles : SearchGoroutine(i)
    \/ WriteLine
    \/ OutWriterReturns
    \/ WriteError
    \/ ErrWriterReturns

CliSpec == CliInit /\ [][CliNext]_vars

\* Every goroutine that can run is scheduled.
CliFairSpec ==
    /\ CliInit
    /\ [][CliNext]_vars
    /\ WF_vars(Main)
    /\ \A i \in 1..MaxFiles : WF_vars(SearchGoroutine(i))
    /\ WF_vars(WriteLine \/ OutWriterReturns)
    /\ WF_vars(WriteError \/ ErrWriterReturns)

----------------------------------------------------------------------------
(* New step by step: one step per enterInTrie of buildTrie, one step per   *)
(* completeFailureFn of buildFailureFn; then AddSearchTerm calls and a     *)
(* Search over the trie.                                                   *)

GrowTexts == {<<97, 97, 110>>, <<110, 97>>}

\* New after "s.ot = make(map[string]bool)", about to call buildTrie.
GrowInit ==
    /\ phase = "new"
    /\ trie = EmptyTrie
    /\ batch = <<>>
    /\ added = <<>>
    /\ Idle
    /\ other = NoOther
    /\ cli = NoCli
    /\ \E b \in SeqsUpTo(BuildTerms, MaxBatch) :
         newCall = [pc |-> "buildTrie", searchStrings |-> b, i |-> 1,
                    nodes |-> <<>>, e |-> 1, visited |-> {}, size |-> 0]

\* The keys the range over the children of the node at the front of the
\* breadth-first list has not visited yet.
FrontChildren ==
    DOMAIN trie.children[newCall.nodes[newCall.e]] \ newCall.visited

\* buildTrie: s.enterInTrie(str) for the next search string.
NewEnterInTrie ==
    /\ newCall.pc = "buildTrie"
    /\ trie.status = "ok"
    /\ newCall.i <= Len(newCall.searchStrings)
    /\ trie' \in enterInTrie(trie, Root, newCall.searchStrings[newCall.i])
    /\ batch' = Append(batch, newCall.searchStrings[newCall.i])
    /\ newCall' = [newCall EXCEPT !.i = @ + 1]
    /\ UNCHANGED <<phase, added, searchVars, other, cli>>

\* buildTrie returns; buildFailureFn pushes the children of the root, in
\* the order the range over s.children visits them.
NewStartFailureFn ==
    /\ newCall.pc = "buildTrie"
    /\ trie.status = "ok"
    /\ newCall.i > Len(newCall.searchStrings)
    /\ \E cs \in childList(DOMAIN trie.children[Root]) :
         newCall' = [newCall EXCEPT
                       !.pc = "buildFailureFn",
                       !.nodes = [k \in 1..Len(cs) |-> trie.children[Root][cs[k]]]]
    /\ UNCHANGED <<phase, buildVars, searchVars, other, cli>>

\* buildFailureFn: node.completeFailureFn(char); nodes.PushBack(child), for
\* the key the range over node.children visits next.
NewCompleteFailureFn ==
    /\ newCall.pc = "buildFailureFn"
    /\ trie.status = "ok"
    /\ newCall.e <= Len(newCall.nodes)
    /\ \E char \in FrontChildren :
         LET node == newCall.nodes[newCall.e]
         IN  /\ trie' = completeFailureFn(trie, node, char)
             /\ newCall' = [newCall EXCEPT
                              !.nodes = Append(@, trie.children[node][char]),
                              !.visited = @ \cup {char}]
    /\ UNCHANGED <<phase, batch, added, searchVars, other, cli>>

\* buildFailureFn: the range over node.children ends; e = e.Next().
NewNextNode ==
    /\ newCall.pc = "buildFailureFn"
    /\ trie.status = "ok"
    /\ newCall.e <= Len(newCall.nodes)
    /\ FrontChildren = {}
    /\ newCall' = [newCall EXCEPT !.e = @ + 1, !.visited = {}]
    /\ UNCHANGED <<phase, buildVars, searchVars, other, cli>>

\* buildFailureFn and New return: the list is a local of buildFailureFn
\* and goes with it; size is the number of nodes New built.
NewReturn ==
    /\ newCall.pc = "buildFailureFn"
    /\ trie.status = "ok"
    /\ newCall.e > Len(newCall.nodes)
    /\ newCall' = [newCall EXCEPT !.pc = "done", !.nodes = <<>>, !.e = 1,
                                  !.size = Cardinality(Nodes(trie))]
    /\ phase' = "built"
    /\ UNCHANGED <<buildVars, searchVars, other, cli>>

\* s.Search(r) on the built trie: "ch := make(chan api.Match, 2);
\* go func() {...}()".
GrowStartSearch ==
    /\ phase = "built"
    /\ trie.status = "ok"
    /\ phase' = "search"
    /\ stream' \in GrowTexts
    /\ pc' = "read"
    /\ consumer' = "recv"
    /\ UNCHANGED <<auxVars, buildVars, pos, readFailed, cursor, index, pending,
                   ch, closed, sent, received>>

GrowNext ==
    \/ NewEnterInTrie
    \/ NewStartFailureFn
    \/ NewCompleteFailureFn
    \/ NewNextNode
    \/ NewReturn
    \/ CallAddSearchTerm
    \/ GrowStartSearch
    \/ ReadRune
    \/ ReadEOF
    \/ Send
    \/ Receive
    \/ ReceiveClosed

GrowSpec == GrowInit /\ [][GrowNext]_vars

----------------------------------------------------------------------------
(* Properties of construction and insertion (checked under Spec).          *)

Built == phase = "built"

Inserted == Range(batch) \cup Range(added)

\* Two tries give the same set of matches on every text.
SameMatches(t1, t2) ==
    \A text \in BuildTexts : searchAll(t1, text) = searchAll(t2, text)

\* The bytes of text consumed once its first k runes are read.
RECURSIVE consumed(_, _)
consumed(dec, k) == IF k = 0 THEN 0 ELSE consumed(dec, k - 1) + dec[k].w

Prefix(text, k) == SubSeq(text, 1, consumed(Decode(text), k))

Orders(sq) ==
    { p \in [1..Len(sq) -> Range(sq)] :
        \E f \in [1..Len(sq) -> 1..Len(sq)] :
            /\ \A i, j \in 1..Len(sq) : i # j => f[i] # f[j]
            /\ \A i \in 1..Len(sq) : p[i] = sq[f[i]] }

\* C1 (incremental equivalence): after New(T) and one AddSearchTerm(t) with
\* t not in T, the call has returned and every text gives the same set of
\* matches as with a trie built by New from T and t together.
C1_IncrementalEquivalence ==
    (Built /\ Len(added) = 1 /\ added[1] \notin Range(batch))
    => /\ trie.status = "ok"
       /\ \A t2 \in New(Append(batch, added[1])) : SameMatches(trie, t2)

\* C2 (closure): for every text and every position of a search, the terms
\* emitted after the rune ending at the position are exactly the inserted
\* terms that are suffixes of the text consumed so far.
C2_Closure ==
    (Built /\ trie.status = "ok")
    => \A text \in BuildTexts : \A k \in 1..Len(Decode(text)) :
          { m.Term : m \in emittedAt(trie, text, k) }
            = { term \in Inserted : IsSuffix(term, Prefix(text, k)) }

\* C3 (insertion never fails): every AddSearchTerm call returns normally.
C3_InsertionNeverFails ==
    Built => trie.status = "ok"

\* C4 (construction equivalence): New of the empty list followed by
\* AddSearchTerm of each term gives the matches of New of the terms.
C4_ConstructionEquivalence ==
    (Built /\ batch = <<>>)
    => /\ trie.status = "ok"
       /\ \A t2 \in New(added) : SameMatches(trie, t2)

\* C5 (order independence): the matches are those of a trie built by New
\* from the same terms in any order, whatever the order and the split
\* between New and AddSearchTerm the terms were inserted with.
C5_OrderIndependence ==
    Built
    => /\ trie.status = "ok"
       /\ \A p \in Orders(batch \o added) :
             \A t2 \in New(p) : SameMatches(trie, t2)

\* C6 (idempotent re-insertion): an AddSearchTerm of a term that was
\* already inserted returns and leaves the matches of every text unchanged.
C6_IdempotentReinsertion ==
    [][ (Built /\ Len(added') = Len(added) + 1
               /\ added'[Len(added')] \in Inserted)
        => (trie'.status = "ok" /\ SameMatches(trie, trie')) ]_vars

----------------------------------------------------------------------------
(* Properties of one Search (checked under SearchSpec / SearchFairSpec).   *)

\* C7 (match location): index is the sum of the widths read so far, and
\* every Match sent ends at or before it, starts byte-length-of-Term before
\* its end, does not start before the beginning of the text, and the bytes
\* of the text at its location spell its Term.
C7_MatchLocation ==
    /\ index = pos
    /\ \A i \in 1..Len(sent) :
          LET m == sent[i]
          IN  /\ m.Location[2] <= index
              /\ m.Location[1] = m.Location[2] - Len(m.Term)
              /\ m.Location[1] >= 0
              /\ SubSeq(stream, m.Location[1] + 1, m.Location[2]) = m.Term

\* The search is over: the channel is closed and drained, the caller saw
\* the close, and it received exactly the matches of the input consumed
\* before ReadRune returned an error, each once.
Finished ==
    /\ pc = "done"
    /\ closed
    /\ ch = <<>>
    /\ consumer = "end"
    /\ received = sent
    /\ Range(received) = searchAll(trie, SubSeq(stream, 1, pos))
    /\ Cardinality(Range(received)) = Len(received)

\* C8 (search termination): unless the caller abandons the channel, the
\* search ends up Finished for good, after an end of input and after a read
\* failure alike; once the channel is closed nothing more is sent, nothing
\* more is read and it stays closed.
C8_SearchTermination ==
    /\ <>[](consumer = "stopped" \/ Finished)
    /\ [][closed => (closed' /\ sent' = sent /\ pos' = pos /\ pc' = "done")]_vars

\* Witness of C8: a search ended by a read failure, with matches received.
C8_Witness ==
    /\ Finished
    /\ readFailed
    /\ received # <<>>

\* C9 (cancellation without leak): once the caller has stopped receiving,
\* the producing goroutine eventually terminates.
C9_CancellationNoLeak ==
    (consumer = "stopped") ~> (pc = "done")

\* C10 (backpressure): the channel never holds more than its capacity, so
\* at most capacity + 1 matches are produced and not received; the
\* goroutine in its send is blocked exactly when the buffer is full, reads
\* nothing while it has a Match to send, and the caller receives the
\* matches in the order they were sent.
C10_Backpressure ==
    /\ Len(ch) <= ChanCap
    /\ Len(sent) - Len(received) + (IF pc = "send" THEN 1 ELSE 0) <= ChanCap + 1
    /\ received \o ch = sent
    /\ pc = "send" => /\ (ENABLED Send) <=> (Len(ch) < ChanCap)
                      /\ ~ENABLED (ReadRune \/ ReadEOF \/ ReadFailure)

\* Witness of C10: the goroutine blocked on a full buffer after the caller
\* has already received a Match.
C10_Witness ==
    /\ pc = "send"
    /\ Len(ch) = ChanCap
    /\ ~ENABLED Send
    /\ received # <<>>

----------------------------------------------------------------------------
(* Structure of the trie (checked under Spec).                             *)

\* The node whose children map holds n (Root for the root itself).
parentOf(t, n) ==
    IF n = Root THEN Root
    ELSE CHOOSE p \in Nodes(t) : n \in Range(t.children[p])

\* The runes on the path from the root to n.
RECURSIVE pathOf(_, _)
pathOf(t, n) ==
    IF n = Root THEN <<>>
    ELSE Append(pathOf(t, parentOf(t, n)), t.char[n])

depthOf(t, n) == Len(pathOf(t, n))

\* The node with path rs, or NIL.
nodeAt(t, rs) ==
    IF \E n \in Nodes(t) : pathOf(t, n) = rs
    THEN CHOOSE n \in Nodes(t) : pathOf(t, n) = rs
    ELSE NIL

\* The node of the longest proper suffix of n's path that is a path from
\* the root (the root when there is none).
longestProperSuffix(t, n) ==
    LET p  == pathOf(t, n)
        ks == { k \in 1..(Len(p) - 1) :
                  nodeAt(t, SubSeq(p, Len(p) - k + 1, Len(p))) # NIL }
    IN  IF ks = {} THEN Root
        ELSE LET k == CHOOSE k \in ks : \A j \in ks : j <= k
             IN  nodeAt(t, SubSeq(p, Len(p) - k + 1, Len(p)))

\* The inserted terms whose runes are a suffix of n's path.
suffixTerms(t, n) ==
    { term \in Inserted : IsSuffix(Runes(term), pathOf(t, n)) }

\* C13 (structural equivalence with a rebuild): once the calls returned,
\* the failure link of every non-root node is the node of the longest
\* proper suffix of its path and its output set is exactly the inserted
\* terms that are suffixes of its path.
C13_StructuralEquivalence ==
    (Built /\ trie.status = "ok")
    => \A n \in Nodes(trie) \ {Root} :
          /\ failureFn(trie, n) = longestProperSuffix(trie, n)
          /\ trie.ot[n] = suffixTerms(trie, n)

\* C14 (inverse-failure consistency): x is in n.ilps exactly when the
\* failure link of x is n, for every non-root x and every n.
C14_InverseConsistency ==
    (Built /\ trie.status = "ok")
    => \A x \in Nodes(trie) \ {Root} : \A n \in Nodes(trie) :
          (x \in trie.ilps[n]) <=> (failureFn(trie, x) = n)

\* C15 (acyclic failure links): the failure link of every non-root node is
\* a node of strictly smaller depth, and the root fails to itself.
C15_FailureAcyclic ==
    Built
    => /\ failureFn(trie, Root) = Root
       /\ \A n \in Nodes(trie) \ {Root} :
             depthOf(trie, failureFn(trie, n)) < depthOf(trie, n)

\* C16 (output closure): a word node holds the term of its path, and every
\* non-root node holds all the outputs of its failure link.
C16_OutputClosure ==
    (Built /\ trie.status = "ok")
    => \A n \in Nodes(trie) :
          /\ trie.isWord[n]
               => \E term \in trie.ot[n] : Runes(term) = pathOf(trie, n)
          /\ n # Root => trie.ot[failureFn(trie, n)] \subseteq trie.ot[n]

\* C17 (empty term): once "" is inserted the root is a word, "" is in the
\* root's outputs and in those of every node failing to the root, and
\* inserting "" alone created no node.
C17_EmptyTerm ==
    (Built /\ trie.status = "ok" /\ <<>> \in Inserted)
    => /\ trie.isWord[Root]
       /\ <<>> \in trie.ot[Root]
       /\ \A n \in Nodes(trie) \ {Root} :
             failureFn(trie, n) = Root => <<>> \in trie.ot[n]
       /\ Inserted = {<<>>} => Nodes(trie) = {Root}

\* What a step may not undo: nodes, entries of children, isWord, outputs.
Grows(t1, t2) ==
    /\ Nodes(t1) \subseteq Nodes(t2)
    /\ \A n \in Nodes(t1) :
          /\ \A c \in DOMAIN t1.children[n] :
                /\ c \in DOMAIN t2.children[n]
                /\ t2.children[n][c] = t1.children[n][c]
          /\ t1.isWord[n] => t2.isWord[n]
          /\ t1.ot[n] \subseteq t2.ot[n]

\* C18 (monotonic growth): no step of New (each enterInTrie of buildTrie,
\* each completeFailureFn of buildFailureFn), of AddSearchTerm or of Search
\* removes a node, removes or re-targets an entry of a children map, clears
\* isWord or removes a term from an output set; the trie New returns is one
\* of those of New(searchStrings).
C18_MonotonicGrowth ==
    /\ [][Grows(trie, trie')]_vars
    /\ [](newCall.pc = "done" /\ added = <<>> => trie \in New(batch))

\* Witness of C18: New's breadth-first pass has re-pointed the failure
\* link of a node that already had outputs (the link is not recorded in the
\* target's inverse set), a later AddSearchTerm has re-pointed the failure
\* link of a node New built, with outputs, to a node the call created, and
\* a Search over the result has sent a match.
C18_Witness ==
    /\ phase = "search"
    /\ newCall.pc = "done"
    /\ added # <<>>
    /\ sent # <<>>
    /\ \E m \in Nodes(trie) \ {Root} :
          /\ m < newCall.size
          /\ trie.lps[m] \notin {NIL, Root}
          /\ trie.lps[m] < newCall.size
          /\ m \notin trie.ilps[trie.lps[m]]
          /\ trie.isWord[m]
    /\ \E n \in Nodes(trie) \ {Root} :
          /\ n < newCall.size
          /\ trie.lps[n] >= newCall.size
          /\ n \in trie.ilps[trie.lps[n]]
          /\ trie.isWord[n]
          /\ Cardinality(trie.ot[n]) > 1

----------------------------------------------------------------------------
(* Further properties of one Search (checked under SearchSpec).            *)

\* C12 (no terms): a trie built by New from an empty list sends no Match
\* whatever the text, the goroutine only reads, and it is done exactly when
\* it has closed the channel, which it can do once the input is exhausted.
C12_NoTerms ==
    (batch = <<>> /\ added = <<>>)
    => /\ sent = <<>>
       /\ ch = <<>>
       /\ pending = {}
       /\ pc \in {"read", "done"}
       /\ (pc = "done") <=> closed
       /\ (pc = "read" /\ pos = Len(stream)) => ENABLED ReadEOF

\* Witness of C12: a search of a non-empty text over the empty trie that
\* read the whole text and closed the channel.
C12_Witness ==
    /\ batch = <<>>
    /\ added = <<>>
    /\ stream # <<>>
    /\ pos = Len(stream)
    /\ closed
    /\ consumer = "end"

\* C19 (match ordering): the matches are sent in non-decreasing order of
\* their end offset, and the stream is consumed left to right, one rune per
\* read, only when the goroutine is at its read.
C19_MatchOrdering ==
    /\ [](\A i, j \in 1..Len(sent) :
              i < j => sent[i].Location[2] <= sent[j].Location[2])
    /\ [][ /\ stream' = stream
           /\ pos' >= pos
           /\ pos' # pos => /\ pc = "read"
                            /\ pos' = pos + DecodeRune(stream, pos + 1).w
                            /\ pos' <= Len(stream) ]_vars

\* Witness of C19: two matches ending at the same position sent after a
\* match ending at an earlier one.
C19_Witness ==
    \E i, j, k \in 1..Len(sent) :
        /\ i < j
        /\ j < k
        /\ sent[i].Location[2] < sent[j].Location[2]
        /\ sent[j].Location[2] = sent[k].Location[2]

----------------------------------------------------------------------------
(* Concurrent searches (checked under ConcSpec).                           *)

\* The cursor and offset a call over text has when running alone, after
\* consuming the first p bytes.
Alone(text, p) ==
    LET dec == Decode(SubSeq(text, 1, p))
    IN  run(trie, dec, Len(dec))

\* C11: Search is a pure reader.  No step of either of two interleaved
\* Search calls changes any node's children, failure link, inverse failure
\* set, isWord or output set; each call's cursor and offset are those it
\* would have running alone on what it has consumed; and each call has
\* sent, position by position, the matches it would send running alone
\* (all of them once it is done).
C11_PureReader ==
    /\ [][trie' = trie]_vars
    /\ [](pc \in {"read", "done"} =>
            /\ Alone(stream, pos).n = cursor
            /\ Alone(stream, pos).index = index
            /\ Range(sent) = searchAll(trie, SubSeq(stream, 1, pos)))
    /\ [](other.pc \in {"read", "done"} =>
            /\ Alone(other.stream, other.pos).n = other.cursor
            /\ Alone(other.stream, other.pos).index = other.index
            /\ Range(other.sent)
                 = searchAll(trie, SubSeq(other.stream, 1, other.pos)))
    /\ [](pc = "send" =>
            Range(sent) \cup outputsAt(trie, cursor, index)
              = searchAll(trie, SubSeq(stream, 1, pos))
                  \cup { Match(term, index) : term \in pending })
    /\ [](other.pc = "send" =>
            Range(other.sent) \cup outputsAt(trie, other.cursor, other.index)
              = searchAll(trie, SubSeq(other.stream, 1, other.pos))
                  \cup { Match(term, other.index) : term \in other.pending })

\* Witness of C11: both calls ran to the end over different inputs, each
\* with matches, while the other was in progress.
C11_Witness ==
    /\ pc = "done"
    /\ other.pc = "done"
    /\ stream # other.stream
    /\ sent # <<>>
    /\ other.sent # <<>>
    /\ Len(other.sent) # Len(sent)

----------------------------------------------------------------------------
(* The command's fan-out (checked under CliFairSpec).                      *)

\* C20: the fan-out completes.  For every search path main eventually
\* returns from wg2.Wait or ends the process with os.Exit before the
\* fan-out (it never blocks forever on a send to outCh or errCh); wg counts exactly the search goroutines that have not called
\* wg.Done; outCh and errCh are closed only after all of them finished, so
\* nothing is sent on a closed channel; and when main returns every line
\* sent to outCh has been written.
C20_FanOutCompletes ==
    /\ <>(cli.main \in {"exit", "osExit"})
    /\ [](cli.wg = Cardinality({ i \in 1..Len(cli.workers) :
                                   cli.workers[i].pc # "done" }))
    /\ [](cli.outClosed \/ cli.errClosed =>
            \A i \in 1..Len(cli.workers) : cli.workers[i].pc = "done")
    /\ [](~cli.panic)
    /\ [](cli.main = "exit" =>
            /\ \A i \in 1..Len(cli.workers) :
                 /\ cli.workers[i].queued = 0
                 /\ cli.workers[i].written = cli.workers[i].sent
            /\ cli.errWritten = cli.errSent)

====
